---- MODULE Spec2Model ----
(***************************************************************************)
(* Model of convert_csv.py (src/main.py): the conversion of raw course-    *)
(* evaluation CSV exports into the Main / Quant / Qual record sets.        *)
(*                                                                         *)
(* Text is modelled character by character: a string is a sequence of     *)
(* one-character strings.  Three characters outside printable ASCII are    *)
(* written by name: "NBSP" (U+00A0), "TAB" (U+0009) and "SUP2" (U+00B2,    *)
(* a character for which str.isdigit() is true and float() fails).         *)
(* An optional value (None or a value) is <<>> or <<v>>.                   *)
(***************************************************************************)
EXTENDS Integers, Sequences, FiniteSets, TLC

\* ------------------------------------------------------------------------
\* Python str / builtins used by the program
\* ------------------------------------------------------------------------

None == <<>>

Some(v) == <<v>>

UpperCase == <<"A","B","C","D","E","F","G","H","I","J","K","L","M",
               "N","O","P","Q","R","S","T","U","V","W","X","Y","Z">>

LowerCase == <<"a","b","c","d","e","f","g","h","i","j","k","l","m",
               "n","o","p","q","r","s","t","u","v","w","x","y","z">>

Digits == <<"0","1","2","3","4","5","6","7","8","9">>

IsUpper(c) == \E i \in 1..26 : UpperCase[i] = c

IsLower(c) == \E i \in 1..26 : LowerCase[i] = c

LowerChar(c) == IF IsUpper(c) THEN LowerCase[CHOOSE i \in 1..26 : UpperCase[i] = c] ELSE c

UpperChar(c) == IF IsLower(c) THEN UpperCase[CHOOSE i \in 1..26 : LowerCase[i] = c] ELSE c

\* str.lower()
lower(s) == [i \in 1..Len(s) |-> LowerChar(s[i])]

\* str.title() of a single word: first letter upper case, the rest lower case
title(s) == [i \in 1..Len(s) |-> IF i = 1 THEN UpperChar(s[i]) ELSE LowerChar(s[i])]

\* whitespace for str.strip() and for \s of a str pattern (both include U+00A0)
IsSpace(c) == c \in {" ", "TAB", "NBSP"}

\* \d of a str pattern (decimal digits)
IsDecimal(c) == \E i \in 1..10 : Digits[i] = c

DecimalChars == {Digits[i] : i \in 1..10}

DigitValue(c) == (CHOOSE i \in 1..10 : Digits[i] = c) - 1

\* s[i:] (i is 1-based here)
From(s, i) == SubSeq(s, i, Len(s))

\* str.startswith
startswith(s, p) == Len(s) >= Len(p) /\ SubSeq(s, 1, Len(p)) = p

\* p occurs in s at position i
At(s, i, p) == i >= 1 /\ i + Len(p) - 1 <= Len(s) /\ SubSeq(s, i, i + Len(p) - 1) = p

MinOr(js, d) == IF js = {} THEN d ELSE CHOOSE j \in js : \A k \in js : j <= k

MaxOr(js, d) == IF js = {} THEN d ELSE CHOOSE j \in js : \A k \in js : j >= k

\* first index >= i of s whose character is not in cs (Len(s)+1 if none)
SkipChars(s, i, cs) == MinOr({j \in i..Len(s) : s[j] \notin cs}, Len(s) + 1)

\* last index of s whose character is not in cs (0 if none)
LastNotIn(s, cs) == MaxOr({j \in 1..Len(s) : s[j] \notin cs}, 0)

\* str.strip(chars)
strip_chars(s, cs) == SubSeq(s, SkipChars(s, 1, cs), LastNotIn(s, cs))

Whitespace == {" ", "TAB", "NBSP"}

\* str.strip()
strip(s) == strip_chars(s, Whitespace)

\* str.replace(' ', ' ')
replace_nbsp(s) == [i \in 1..Len(s) |-> IF s[i] = "NBSP" THEN " " ELSE s[i]]

\* str.isdigit(): non-empty and every character a digit (U+00B2 counts)
isdigit(s) == Len(s) > 0 /\ \A i \in 1..Len(s) : IsDecimal(s[i]) \/ s[i] = "SUP2"

\* int() of a run of decimal digits
RECURSIVE int(_)
int(s) == IF s = <<>> THEN 0 ELSE 10 * int(SubSeq(s, 1, Len(s) - 1)) + DigitValue(s[Len(s)])

AllDecimal(s) == \A i \in 1..Len(s) : IsDecimal(s[i])

\* float() accepts s: an optional sign, decimal digits with at most one point
\* and at least one digit (the exponent, inf/nan and underscore forms use
\* characters that the inputs of this model do not combine that way).
FloatBody(t) == IF Len(t) > 0 /\ t[1] \in {"+", "-"} THEN From(t, 2) ELSE t

FloatBodyOk(b) ==
    /\ Cardinality({i \in 1..Len(b) : b[i] = "."}) <= 1
    /\ \E i \in 1..Len(b) : IsDecimal(b[i])
    /\ \A i \in 1..Len(b) : IsDecimal(b[i]) \/ b[i] = "."

FloatOk(s) == FloatBodyOk(FloatBody(strip(s)))

\* the digits b with the point at index d, in hundredths (digits past the
\* second decimal dropped)
FloatMagnitude(b, d) ==
    100 * int(SubSeq(b, 1, d - 1)) + int(SubSeq(From(b, d + 1) \o <<"0", "0">>, 1, 2))

FloatSigned(t, b) ==
    IF Len(t) > 0 /\ t[1] = "-"
    THEN 0 - FloatMagnitude(b, SkipChars(b, 1, DecimalChars))
    ELSE FloatMagnitude(b, SkipChars(b, 1, DecimalChars))

FloatStripped(t) == FloatSigned(t, FloatBody(t))

\* the value of float(s), in hundredths
FloatValue(s) == FloatStripped(strip(s))

\* ','.join(r)
RECURSIVE join(_)
join(r) == IF r = <<>> THEN <<>>
           ELSE IF Len(r) = 1 THEN r[1]
           ELSE r[1] \o <<",">> \o join(Tail(r))

\* ------------------------------------------------------------------------
\* Literals of the program text
\* ------------------------------------------------------------------------

sTextResponses == <<"T","e","x","t"," ","R","e","s","p","o","n","s","e","s">>

sQuestionPrefix == <<"q","u","e","s","t","i","o","n",":">>

sNA == <<"n","/","a">>

sNA2 == <<"n","a">>

sSpring == <<"s","p","r","i","n","g">>

sSummer == <<"s","u","m","m","e","r">>

sFall == <<"f","a","l","l">>

sWinter == <<"w","i","n","t","e","r">>

sSection == <<"s","e","c","t","i","o","n">>

sThereWere == <<"t","h","e","r","e"," ","w","e","r","e",":">>

sPossibleRespondents == <<"p","o","s","s","i","b","l","e"," ","r","e","s",
    "p","o","n","d","e","n","t","s">>

\* ------------------------------------------------------------------------
\* Configuration
\* ------------------------------------------------------------------------

Q1 == <<"C","o","u","r","s","e"," ","o","r","g","a","n","i","z","e","d"," ",
    "t","o"," ","h","e","l","p"," ","l","e","a","r","n","i","n","g">>

Q2 == <<"C","o","u","r","s","e"," ","d","e","v","e","l","o","p","e","d"," ",
    "a","b","i","l","i","t","i","e","s","/","s","k","i","l","l","s"," ","f",
    "o","r"," ","s","u","b","j","e","c","t">>

Q3 == <<"C","o","u","r","s","e"," ","d","e","v","e","l","o","p","e","d"," ",
    "a","b","i","l","i","t","y"," ","t","o"," ","t","h","i","n","k"," ","c",
    "r","i","t","i","c","a","l","l","y">>

Q4 == <<"M","a","t","e","r","i","a","l"," ","o","r","g","a","n","i","z","e",
    "d"," ","a","r","o","u","n","d"," ","l","e","a","r","n","i","n","g"," ",
    "o","u","t","c","o","m","e","s">>

Q5 == <<"C","o","u","r","s","e"," ","i","m","p","r","o","v","e","d"," ","p",
    "r","o","b","l","e","m","-","s","o","l","v","i","n","g"," ","s","k","i",
    "l","l","s">>

Q7 == <<"S","a","t","i","s","f","a","c","t","i","o","n"," ","w","i","t","h",
    " ","e","f","f","o","r","t"," ","i","n"," ","c","o","u","r","s","e">>

Q14 == <<"I","n","s","t","r","u","c","t","o","r"," ","p","r","e","s","e",
    "n","t","e","d"," ","o","r","g","a","n","i","z","e","d"," ","c","o","n",
    "t","e","n","t">>

Q15 == <<"I","n","s","t","r","u","c","t","o","r"," ","i","n","c","r","e",
    "a","s","e","d"," ","u","n","d","e","r","s","t","a","n","d","i","n","g",
    " ","o","f"," ","m","a","t","e","r","i","a","l">>

Q16 == <<"I","n","s","t","r","u","c","t","o","r"," ","h","e","l","p","f",
    "u","l"," ","t","o"," ","s","t","u","d","e","n","t"," ","i","n","d","i",
    "v","i","d","u","a","l","l","y">>

Q17 == <<"I","n","s","t","r","u","c","t","o","r"," ","p","r","o","v","i",
    "d","e","d"," ","m","e","a","n","i","n","g","f","u","l"," ","f","e","e",
    "d","b","a","c","k">>

Q18 == <<"I","n","s","t","r","u","c","t","o","r"," ","p","r","o","v","i",
    "d","e","d"," ","t","i","m","e","l","y"," ","f","e","e","d","b","a","c",
    "k">>

Q19 == <<"I","n","s","t","r","u","c","t","o","r"," ","e","n","c","o","u",
    "r","a","g","e","d"," ","p","a","r","t","i","c","i","p","a","t","i","o",
    "n">>

Q20 == <<"I","n","s","t","r","u","c","t","o","r"," ","c","o","n","d","u",
    "c","t"," ","p","r","o","f","e","s","s","i","o","n","a","l">>

Q21 == <<"O","v","e","r","a","l","l"," ","e","f","f","e","c","t","i","v",
    "e","n","e","s","s"," ","o","f"," ","i","n","s","t","r","u","c","t","o",
    "r","'","s"," ","t","e","a","c","h","i","n","g"," ","t","e","c","h","n",
    "i","q","u","e">>

Q22 == <<"O","v","e","r","a","l","l"," ","d","e","m","o","n","s","t","r",
    "a","t","i","o","n"," ","o","f"," ","t","h","e"," ","s","i","g","n","i",
    "f","i","c","a","n","c","e"," ","o","f"," ","s","u","b","j","e","c","t",
    " ","m","a","t","t","e","r">>

Q23 == <<"I","n","s","t","r","u","c","t","o","r"," ","c","r","e","a","t",
    "e","d"," ","a","n"," ","e","n","v","i","r","o","n","m","e","n","t"," ",
    "c","o","n","d","u","c","i","v","e"," ","t","o"," ","l","e","a","r","n",
    "i","n","g">>

QUESTION_MAP ==
    (1 :> Q1) @@ (2 :> Q2) @@ (3 :> Q3) @@ (4 :> Q4) @@ (5 :> Q5) @@ (7 :> Q7) @@
    (14 :> Q14) @@ (15 :> Q15) @@ (16 :> Q16) @@ (17 :> Q17) @@ (18 :> Q18) @@
    (19 :> Q19) @@ (20 :> Q20) @@ (21 :> Q21) @@ (22 :> Q22) @@ (23 :> Q23)

QnumOf(ks) == IF ks = {} THEN None ELSE Some(CHOOSE k \in ks : TRUE)

\* TEXT_TO_QNUM.get(t): the reverse lookup over the lower-cased texts
TEXT_TO_QNUM_get(t) == QnumOf({k \in DOMAIN QUESTION_MAP : lower(QUESTION_MAP[k]) = t})

\* the negative thresholds taken inclusively
compound_to_bucket_inclusive(score) ==
    IF score >= 750000 THEN "Highly Positive"
    ELSE IF score >= 500000 THEN "Positive"
    ELSE IF score >= 100000 THEN "Slightly Positive"
    ELSE IF score >= -100000 THEN "Neutral"
    ELSE IF score >= -500000 THEN "Slightly Negative"
    ELSE IF score >= -750000 THEN "Negative"
    ELSE "Highly Negative"

\* compound scores are held in millionths: 0.75 is 750000
compound_to_bucket(score) ==
    IF score >= 750000 THEN "Highly Positive"
    ELSE IF score >= 500000 THEN "Positive"
    ELSE IF score >= 100000 THEN "Slightly Positive"
    ELSE IF score > -100000 THEN "Neutral"
    ELSE IF score > -500000 THEN "Slightly Negative"
    ELSE IF score > -750000 THEN "Negative"
    ELSE "Highly Negative"

\* ------------------------------------------------------------------------
\* Results of a call: a returned value or a raised exception
\* ------------------------------------------------------------------------

Ok(v) == [ok |-> TRUE, val |-> v]

Raise(e) == [ok |-> FALSE, exc |-> e]

Min(S) == CHOOSE x \in S : \A y \in S : x <= y

Max(S) == CHOOSE x \in S : \A y \in S : x >= y

\* ------------------------------------------------------------------------
\* Helpers
\* ------------------------------------------------------------------------

TermNames == {sSpring, sSummer, sFall, sWinter}

\* \s+Section matches l at j (ll is l in lower case)
SectionAt(l, ll, j) ==
    /\ j <= Len(l)
    /\ IsSpace(l[j])
    /\ At(ll, SkipChars(l, j, Whitespace), sSection)

\* the ends e of a group 3 that starts at index b
TitleEnds(l, ll, b) == {e \in b..Len(l) : SectionAt(l, ll, e + 1)}

\* the group starts tried for group 3: the \s+ after the comma at index a - 1
\* takes k of the w white-space characters that follow it
TitleStarts(l, ll, a, w) == {a + k : k \in {k \in 1..w : TitleEnds(l, ll, a + k) # {}}}

\* \s+ is greedy (the largest start), (.+?) is lazy (the smallest end)
MetaGroups(l, ll, n, y, starts) ==
    IF starts = {} THEN None
    ELSE Some(<<SubSeq(l, 1, n),
                SubSeq(l, y, y + 3),
                SubSeq(l, Max(starts), Min(TitleEnds(l, ll, Max(starts))))>>)

\* the term takes n characters and the year starts at index y
MetaAfterTerm(l, ll, n, y) ==
    IF \/ y = n + 1
       \/ y + 4 > Len(l)
       \/ ~AllDecimal(SubSeq(l, y, y + 3))
       \/ l[y + 4] # ","
    THEN None
    ELSE MetaGroups(l, ll, n, y,
                    TitleStarts(l, ll, y + 5, SkipChars(l, y + 5, Whitespace) - (y + 5)))

MetaTerm(l, ll, terms) ==
    IF terms = {} THEN None
    ELSE MetaAfterTerm(l, ll, Len(CHOOSE t \in terms : TRUE),
                       SkipChars(l, Len(CHOOSE t \in terms : TRUE) + 1, Whitespace))

MetaLower(l, ll) == MetaTerm(l, ll, {t \in TermNames : startswith(ll, t)})

\* meta_re.search(l): None, or <<group(1), group(2), group(3)>>.
\* ^(Spring|Summer|Fall|Winter)\s+(\d{4}),\s+(.+?)\s+Section under re.I
meta_re_search(l) == MetaLower(l, lower(l))

\* the match of possible_resp_re at index i of l: the digits start at d,
\* end before x, and the white space after them ends before q
RespAt(l, ll, i, d, x, q) ==
    /\ At(ll, i, sThereWere)
    /\ d > i + Len(sThereWere)
    /\ x > d
    /\ q > x
    /\ At(ll, q, sPossibleRespondents)

RespDigitsEnd(l, d) == SkipChars(l, d, DecimalChars)

RespDigitsStart(l, i) == SkipChars(l, i + Len(sThereWere), Whitespace)

RespMatches(l, ll, i) ==
    RespAt(l, ll, i, RespDigitsStart(l, i), RespDigitsEnd(l, RespDigitsStart(l, i)),
           SkipChars(l, RespDigitsEnd(l, RespDigitsStart(l, i)), Whitespace))

RespGroup(l, is) ==
    IF is = {} THEN None
    ELSE Some(<<SubSeq(l, RespDigitsStart(l, Min(is)),
                       RespDigitsEnd(l, RespDigitsStart(l, Min(is))) - 1)>>)

RespLower(l, ll) == RespGroup(l, {i \in 1..Len(l) : RespMatches(l, ll, i)})

\* possible_resp_re.search(l): None, or <<group(1)>> of the leftmost match of
\* There were:\s+(\d+)\s+possible respondents under re.I
possible_resp_re_search(l) == RespLower(l, lower(l))

mk_meta(course_title, term, year, possible_resp) ==
    ("Course Title" :> course_title) @@ ("Term" :> term) @@ ("Year" :> year) @@
    ("# of Possible Responses" :> possible_resp)

\* the four locals of parse_metadata before the loop
MetaInit == [term |-> None, year |-> None, course_title |-> None, possible_resp |-> None]

\* the assignments of one iteration of the loop of parse_metadata
MetaAssign(st, m_meta, m_resp) ==
    [term          |-> IF m_meta # None THEN Some(title(m_meta[1][1])) ELSE st.term,
     year          |-> IF m_meta # None THEN Some(int(m_meta[1][2])) ELSE st.year,
     course_title  |-> IF m_meta # None THEN Some(strip(m_meta[1][3])) ELSE st.course_title,
     possible_resp |-> IF m_resp # None THEN Some(int(m_resp[1][1])) ELSE st.possible_resp]

\* one iteration of the loop of parse_metadata on line l
MetaLine(st, l) == MetaAssign(st, meta_re_search(l), possible_resp_re_search(l))

RECURSIVE MetaScan(_, _)
MetaScan(st, ls) ==
    IF ls = <<>> THEN st ELSE MetaScan(MetaLine(st, Head(ls)), Tail(ls))

\* a window of every line
MetaWindowAll(lines) == lines

\* lines[:4]
MetaWindow(lines) == SubSeq(lines, 1, IF Len(lines) < 4 THEN Len(lines) ELSE 4)

\* the check after the loop, and the dict returned
MetaReturn(st) ==
    IF \/ st.term = None
       \/ st.year = None
       \/ st.course_title = None
       \/ st.possible_resp = None
    THEN Raise("ValueError: Could not parse metadata in file header.")
    ELSE Ok(mk_meta(st.course_title[1], st.term[1], st.year[1], st.possible_resp[1]))

parse_metadata(lines) == MetaReturn(MetaScan(MetaInit, MetaWindow(lines)))

clean_cell(cell) == replace_nbsp(strip(cell))

\* ------------------------------------------------------------------------
\* State
\* ------------------------------------------------------------------------

VARIABLES
    sia,                \* the sentiment analyser: known text -> compound score
    \* main()
    files,              \* the files INPUT_DIR.glob yields, in its order
    csv_file,           \* position of the for loop in files
    main_records, quant_records, qual_records,
    stderr,             \* the names printed to sys.stderr
    pc,                 \* "loop" or "done"
    \* a call of process_file
    pf_rows,            \* the rows read from the file
    quant_arg, qual_arg,\* the slices handed to the two section parsers
    pf_result,
    \* a call of parse_metadata
    lines, md_result,
    \* a call of parse_quant_section
    qt_rows, qt_meta, qt_result,
    \* a call of parse_qual_section, row by row
    ql_rows, ql_meta, ql_next, current_question, qual_rows, ql_pc,
    \* a call of parse_main_record
    mr_quant_rows, mr_meta, mr_result,
    \* a call of compound_to_bucket
    score, bucket

vars == <<sia, files, csv_file, main_records, quant_records, qual_records, stderr, pc,
          pf_rows, quant_arg, qual_arg, pf_result, lines, md_result,
          qt_rows, qt_meta, qt_result, ql_rows, ql_meta, ql_next, current_question,
          qual_rows, ql_pc, mr_quant_rows, mr_meta, mr_result, score, bucket>>

\* sia.polarity_scores(cell)['compound'], in millionths; a text with no word
\* of the lexicon scores 0
polarity_compound(cell) == IF cell \in DOMAIN sia THEN sia[cell] ELSE 0

\* ------------------------------------------------------------------------
\* Core parsing functions
\* ------------------------------------------------------------------------

\* the conversions of the cleaned cells c2, c3, c4 raise ValueError
CellsRaise(c2, c3, c4) ==
    \/ isdigit(c2) /\ ~FloatOk(c2)
    \/ c3 # <<>> /\ ~FloatOk(c3)
    \/ c4 # <<>> /\ ~FloatOk(c4)

QuantRowRaises(row) == CellsRaise(clean_cell(row[3]), clean_cell(row[4]), clean_cell(row[5]))

\* the dict appended for a row with the cleaned cells (Avg and SD in hundredths)
QuantDict(meta, q_text, c2, c3, c4) ==
    meta @@
    ("Question #" :> TEXT_TO_QNUM_get(lower(q_text))) @@
    ("Question Text" :> q_text) @@
    ("N" :> IF isdigit(c2) THEN Some(FloatValue(c2) \div 100) ELSE None) @@
    ("Avg" :> IF c3 # <<>> THEN Some(FloatValue(c3)) ELSE None) @@
    ("SD" :> IF c4 # <<>> THEN Some(FloatValue(c4)) ELSE None)

QuantMeasurement(row, meta) ==
    QuantDict(meta, clean_cell(row[2]), clean_cell(row[3]), clean_cell(row[4]),
              clean_cell(row[5]))

\* a loop that passes over an empty row
QuantRowKindNoBreak(row) ==
    IF Len(row) = 0 THEN "continue"
    ELSE IF startswith(row[1], sTextResponses) THEN "break"
    ELSE IF Len(row) < 5 THEN "continue"
    ELSE IF clean_cell(row[2]) = <<>> THEN "continue"
    ELSE IF QuantRowRaises(row) THEN "raise"
    ELSE "append"

\* one row of the for loop of parse_quant_section: "break", "continue",
\* "raise" or "append"
QuantRowKind(row) ==
    IF Len(row) = 0 THEN "break"
    ELSE IF startswith(row[1], sTextResponses) THEN "break"
    ELSE IF Len(row) < 5 THEN "continue"
    ELSE IF clean_cell(row[2]) = <<>> THEN "continue"
    ELSE IF QuantRowRaises(row) THEN "raise"
    ELSE "append"

RECURSIVE QuantLoop(_, _, _)
QuantRow(kind, rows, meta, quant) ==
    IF kind = "break" THEN Ok(quant)
    ELSE IF kind = "continue" THEN QuantLoop(Tail(rows), meta, quant)
    ELSE IF kind = "raise" THEN Raise("ValueError: could not convert string to float")
    ELSE QuantLoop(Tail(rows), meta, Append(quant, QuantMeasurement(Head(rows), meta)))

\* the for loop of parse_quant_section from the rows still to visit
QuantLoop(rows, meta, quant) ==
    IF rows = <<>> THEN Ok(quant) ELSE QuantRow(QuantRowKind(Head(rows)), rows, meta, quant)

parse_quant_section(rows, meta) == QuantLoop(rows, meta, <<>>)

\* re.sub(r'^Question:\s*', '', cell, flags=re.I)
sub_question(cell) ==
    IF startswith(lower(cell), sQuestionPrefix)
    THEN From(cell, SkipChars(cell, Len(sQuestionPrefix) + 1, Whitespace))
    ELSE cell

\* re.sub(r'^Question:\s*', '', cell, flags=re.I).strip(': ').strip()
question_text(cell) == strip(strip_chars(sub_question(cell), {":", " "}))

QualComment(meta, question, cell) ==
    ("Course Title" :> meta["Course Title"]) @@ ("Term" :> meta["Term"]) @@
    ("Year" :> meta["Year"]) @@ ("Question Text" :> question) @@
    ("Answer Text" :> cell) @@
    ("Sentiment" :> compound_to_bucket(polarity_compound(cell)))

\* locals that keep the question of the call before
QualInitKeeping == [current_question |-> current_question, qual_rows |-> <<>>]

\* the locals of parse_qual_section before the loop
QualInit == [current_question |-> None, qual_rows |-> <<>>]

\* a loop body without the placeholder test
QualCellKeepingNA(st, cell, meta) ==
    IF cell = <<>> THEN st
    ELSE IF startswith(lower(cell), sQuestionPrefix)
         THEN [st EXCEPT !.current_question = Some(question_text(cell))]
    ELSE IF st.current_question = None THEN st
    ELSE [st EXCEPT !.qual_rows =
              Append(@, QualComment(meta, st.current_question[1], cell))]

\* a loop body in which a placeholder closes the question
QualCellResetOnNA(st, cell, meta) ==
    IF cell = <<>> THEN st
    ELSE IF startswith(lower(cell), sQuestionPrefix)
         THEN [st EXCEPT !.current_question = Some(question_text(cell))]
    ELSE IF st.current_question = None THEN st
    ELSE IF lower(cell) \in {sNA, sNA2} THEN [st EXCEPT !.current_question = None]
    ELSE [st EXCEPT !.qual_rows =
              Append(@, QualComment(meta, st.current_question[1], cell))]

\* the body of the for loop of parse_qual_section from the cleaned first cell
QualCell(st, cell, meta) ==
    IF cell = <<>> THEN st
    ELSE IF startswith(lower(cell), sQuestionPrefix)
         THEN [st EXCEPT !.current_question = Some(question_text(cell))]
    ELSE IF st.current_question = None THEN st
    ELSE IF lower(cell) \in {sNA, sNA2} THEN st
    ELSE [st EXCEPT !.qual_rows =
              Append(@, QualComment(meta, st.current_question[1], cell))]

\* one iteration of the for loop of parse_qual_section
QualStep(st, row, meta) ==
    IF Len(row) = 0 THEN st ELSE QualCell(st, clean_cell(row[1]), meta)

RECURSIVE QualLoop(_, _, _)
QualLoop(st, rows, meta) ==
    IF rows = <<>> THEN st ELSE QualLoop(QualStep(st, Head(rows), meta), Tail(rows), meta)

parse_qual_section(rows, meta) == QualLoop(QualInit, rows, meta).qual_rows

\* the mean of the last hit, not the first
LastOf(quant, hits) == IF hits = {} THEN None ELSE quant[Max(hits)]["Avg"]

FirstOf(quant, hits) == IF hits = {} THEN None ELSE quant[Min(hits)]["Avg"]

\* next((r['Avg'] for r in quant_rows if r.get('Question #') == n), None)
FirstAvg(quant, n) ==
    FirstOf(quant, {i \in 1..Len(quant) : quant[i]["Question #"] = Some(n)})

parse_main_record(quant, meta) ==
    meta @@ ("Avg (21)" :> FirstAvg(quant, 21)) @@ ("Avg (23)" :> FirstAvg(quant, 23))

\* ------------------------------------------------------------------------
\* Program entry point
\* ------------------------------------------------------------------------

\* raw_lines = [','.join(r) for r in rows]
raw_lines(rows) == [i \in 1..Len(rows) |-> join(rows[i])]

\* rows[5:]
quant_section(rows) == From(rows, 6)

FirstHit(section, hits) == IF hits = {} THEN Len(section) + 1 ELSE Min(hits)

\* text_resp_idx, counted from 1: the first row that is non-empty and whose
\* first cell starts with 'Text Responses', or one past the end
text_resp_idx(section) ==
    FirstHit(section, {i \in 1..Len(section) :
                          Len(section[i]) > 0 /\ startswith(section[i][1], sTextResponses)})

\* quant_section[:text_resp_idx]
quant_slice(section) == SubSeq(section, 1, text_resp_idx(section) - 1)

\* a slice that starts after the sentinel row
qual_slice_after(section) == From(section, text_resp_idx(section) + 1)

\* quant_section[text_resp_idx:]
qual_slice(section) == From(section, text_resp_idx(section))

\* the three values process_file returns
FileReturn(quant, qual, meta) == Ok(<<parse_main_record(quant, meta), quant, qual>>)

\* process_file after parse_quant_section returned or raised q
FileQuant(q, qual_part, meta) ==
    IF ~q.ok THEN q ELSE FileReturn(q.val, parse_qual_section(qual_part, meta), meta)

\* the three parser calls of process_file on the two slices
FileSections(quant_part, qual_part, meta) ==
    FileQuant(parse_quant_section(quant_part, meta), qual_part, meta)

\* process_file after parse_metadata returned or raised m
FileMeta(m, rows) ==
    IF ~m.ok THEN m
    ELSE FileSections(quant_slice(quant_section(rows)), qual_slice(quant_section(rows)), m.val)

\* a file is [name, readable, rows]: rows is what csv.reader yields for it,
\* readable is false when opening or decoding it raises
process_file(f) ==
    IF ~f.readable THEN Raise("OSError") ELSE FileMeta(parse_metadata(raw_lines(f.rows)), f.rows)


\* ------------------------------------------------------------------------
\* Inputs: rows of export files
\* ------------------------------------------------------------------------

\* banner rows, as csv.reader splits them at the commas
bTitle == <<
    <<"F","a","l","l"," ","2","0","2","3">>,
    <<" ","C","S","1"," ","S","e","c","t","i","o","n"," ","1">>
    >>

bTitleLower == <<
    <<"w","i","n","t","e","r"," "," ","2","0","2","4">>,
    <<" ","M","L"," "," ","S","e","c","t","i","o","n"," ","2">>
    >>

bResp == <<
    <<"T","h","e","r","e"," ","w","e","r","e",":"," ","4","2"," ","p","o",
      "s","s","i","b","l","e"," ","r","e","s","p","o","n","d","e","n","t",
      "s">>
    >>

bRespUpper == <<
    <<>>,
    <<"T","H","E","R","E"," ","W","E","R","E",":"," "," ","7"," ","P","O",
      "S","S","I","B","L","E"," ","R","E","S","P","O","N","D","E","N","T",
      "S">>
    >>

bBoth == <<
    <<"S","u","m","m","e","r"," ","2","0","2","2">>,
    <<" ","L","a","b"," ","S","e","c","t","i","o","n"," ","3">>,
    <<"T","h","e","r","e"," ","w","e","r","e",":"," ","9"," ","p","o","s",
      "s","i","b","l","e"," ","r","e","s","p","o","n","d","e","n","t","s">>
    >>

bNoTerm == <<
    <<"A","u","t","u","m","n"," ","2","0","2","3">>,
    <<" ","C","S","1"," ","S","e","c","t","i","o","n"," ","1">>
    >>

bJunk == <<
    <<"C","o","u","r","s","e"," ","E","v","a","l","u","a","t","i","o","n",
      " ","R","e","p","o","r","t">>
    >>

bBlank == <<>>

bHeader == <<
    <<>>,
    <<"Q","u","e","s","t","i","o","n">>,
    <<"N">>,
    <<"A","v","g">>,
    <<"S","D">>
    >>

\* rows of the quantitative table
q21 == <<
    <<>>,
    <<"O","v","e","r","a","l","l"," ","e","f","f","e","c","t","i","v","e",
      "n","e","s","s"," ","o","f"," ","i","n","s","t","r","u","c","t","o",
      "r","'","s"," ","t","e","a","c","h","i","n","g"," ","t","e","c","h",
      "n","i","q","u","e">>,
    <<"3","8">>,
    <<"4",".","2">>,
    <<"0",".","8">>
    >>

q21NoAvg == <<
    <<>>,
    <<"O","V","E","R","A","L","L"," ","E","F","F","E","C","T","I","V","E",
      "N","E","S","S"," ","O","F"," ","I","N","S","T","R","U","C","T","O",
      "R","'","S"," ","T","E","A","C","H","I","N","G"," ","T","E","C","H",
      "N","I","Q","U","E">>,
    <<"-">>,
    <<>>,
    <<>>
    >>

q21Other == <<
    <<>>,
    <<" ","O","v","e","r","a","l","l"," ","e","f","f","e","c","t","i","v",
      "e","n","e","s","s"," ","o","f"," ","i","n","s","t","r","u","c","t",
      "o","r","'","s"," ","t","e","a","c","h","i","n","g"," ","t","e","c",
      "h","n","i","q","u","e"," ">>,
    <<"1","2">>,
    <<"3",".","0","5">>,
    <<"1">>
    >>

q23 == <<
    <<>>,
    <<"I","n","s","t","r","u","c","t","o","r"," ","c","r","e","a","t","e",
      "d"," ","a","n"," ","e","n","v","i","r","o","n","m","e","n","t"," ",
      "c","o","n","d","u","c","i","v","e"," ","t","o"," ","l","e","a","r",
      "n","i","n","g">>,
    <<"4","0">>,
    <<"3",".","5">>,
    <<>>
    >>

q23Other == <<
    <<>>,
    <<"I","n","s","t","r","u","c","t","o","r"," ","c","r","e","a","t","e",
      "d"," ","a","n"," ","e","n","v","i","r","o","n","m","e","n","t"," ",
      "c","o","n","d","u","c","i","v","e"," ","t","o"," ","l","e","a","r",
      "n","i","n","g">>,
    <<>>,
    <<"2">>,
    <<"0",".","5">>
    >>

qUnmapped == <<
    <<"7">>,
    <<"P","a","c","e"," ","o","f"," ","t","h","e"," ","c","o","u","r","s",
      "e">>,
    <<"5">>,
    <<"4">>,
    <<"1",".","2","5">>
    >>

qBadAvg == <<
    <<>>,
    <<"P","a","c","e"," ","o","f"," ","t","h","e"," ","c","o","u","r","s",
      "e">>,
    <<"5">>,
    <<"a","b","c">>,
    <<"1">>
    >>

qBadSD == <<
    <<>>,
    <<"P","a","c","e"," ","o","f"," ","t","h","e"," ","c","o","u","r","s",
      "e">>,
    <<"5">>,
    <<"4">>,
    <<"n","/","a">>
    >>

qBadN == <<
    <<>>,
    <<"P","a","c","e"," ","o","f"," ","t","h","e"," ","c","o","u","r","s",
      "e">>,
    <<"SUP2">>,
    <<"4">>,
    <<"1">>
    >>

qShort == <<
    <<>>,
    <<"P","a","c","e"," ","o","f"," ","t","h","e"," ","c","o","u","r","s",
      "e">>,
    <<"5">>
    >>

qNoText == <<
    <<>>,
    <<" "," ">>,
    <<"5">>,
    <<"4">>,
    <<"1">>
    >>

rEmpty == <<>>

rSentinel == <<
    <<"T","e","x","t"," ","R","e","s","p","o","n","s","e","s">>
    >>

rSentinelLong == <<
    <<"T","e","x","t"," ","R","e","s","p","o","n","s","e","s"," ","t","o",
      " ","o","p","e","n"," ","q","u","e","s","t","i","o","n","s">>,
    <<>>
    >>

rIndented == <<
    <<" ","T","e","x","t"," ","R","e","s","p","o","n","s","e","s">>,
    <<>>,
    <<>>,
    <<>>,
    <<>>
    >>

\* rows of the free-text block
hPace == <<
    <<"Q","u","e","s","t","i","o","n",":"," ","P","a","c","e">>
    >>

hLabs == <<
    <<"Q","U","E","S","T","I","O","N",":","L","a","b","s"," ",":">>,
    <<>>
    >>

hBare == <<
    <<"q","u","e","s","t","i","o","n",":">>
    >>

aGood == <<
    <<"G","r","e","a","t"," ","m","e","n","t","o","r">>
    >>

aBad == <<
    <<" ","T","o","o"," ","f","a","s","t"," ">>,
    <<"x">>
    >>

aNA == <<
    <<"n","/","a">>
    >>

aNAUpper == <<
    <<" ","N","A"," ">>
    >>

aBlank == <<
    <<>>
    >>

aSpaces == <<
    <<" ","NBSP">>
    >>

\* ------------------------------------------------------------------------
\* Inputs: the sentiment analyser
\* ------------------------------------------------------------------------

\* the answer texts that carry words of the lexicon
KnownTexts == {clean_cell(aGood[1]), clean_cell(aBad[1])}

\* one compound score in each of the seven buckets, in millionths
ScoreList == <<800000, 600000, 200000, 0, -300000, -600000, -900000>>

NumScorers == 2

\* the analyser is external and deterministic: each candidate is a fixed map
Scorer(k) == [t \in KnownTexts |-> ScoreList[((Len(t) + k) % Len(ScoreList)) + 1]]

SiaFamily == {Scorer(k) : k \in 1..NumScorers}

\* ------------------------------------------------------------------------
\* Inputs: files of the input directory
\* ------------------------------------------------------------------------

File(name, rows) == [name |-> name, readable |-> TRUE, rows |-> rows]

fGood == File("good.csv",
    <<bTitle, bJunk, bResp, bBlank, bHeader, q21, q23, rSentinel, hPace, aGood, aNA>>)

fNoSentinel == File("nosentinel.csv",
    <<bTitleLower, bRespUpper, bJunk, bJunk, bHeader, qUnmapped, q21NoAvg, q21Other>>)

fMixed == File("mixed.csv",
    <<bBoth, bJunk, bJunk, bJunk, bHeader, q23, rEmpty, q21, rSentinelLong,
      aBad, hLabs, aBad, aNAUpper, hBare, aGood>>)

fBannerOnly == File("banner.csv", <<bBoth>>)

fBadMeta == File("badmeta.csv",
    <<bNoTerm, bJunk, bResp, bJunk, bHeader, q21, rSentinel, hPace, aGood>>)

fLateResp == File("lateresp.csv", <<bJunk, bJunk, bJunk, bTitle, bResp, q21>>)

fBadAvg == File("badavg.csv",
    <<bTitle, bResp, bJunk, bJunk, bHeader, q21, qBadAvg, rSentinel, hPace, aBad>>)

fBadN == File("badn.csv",
    <<bTitle, bResp, bJunk, bJunk, bHeader, q23, qBadN, rSentinel, hPace, aGood>>)

fUnreadable == [name |-> "locked.csv", readable |-> FALSE, rows |-> <<>>]

FilePool == {fGood, fNoSentinel, fMixed, fBannerOnly, fBadMeta, fLateResp, fBadAvg,
             fBadN, fUnreadable}

MaxFiles == 2

Range(s) == {s[i] : i \in 1..Len(s)}

RECURSIVE SeqsUpTo(_, _)
SeqsUpTo(S, n) ==
    IF n = 0 THEN {<<>>}
    ELSE SeqsUpTo(S, n - 1) \cup
         {Append(s, x) : s \in {t \in SeqsUpTo(S, n - 1) : Len(t) = n - 1}, x \in S}

\* the listings glob can yield: distinct files, in any order
FileLists == {fs \in SeqsUpTo(FilePool, MaxFiles) :
                 \A i, j \in 1..Len(fs) : i # j => fs[i].name # fs[j].name}

\* ------------------------------------------------------------------------
\* The variables of the calls that a specification does not exercise
\* ------------------------------------------------------------------------

runVars == <<files, csv_file, main_records, quant_records, qual_records, stderr, pc>>

pfVars == <<pf_rows, quant_arg, qual_arg, pf_result>>

mdVars == <<lines, md_result>>

qtVars == <<qt_rows, qt_meta, qt_result>>

qlVars == <<ql_rows, ql_meta, ql_next, current_question, qual_rows, ql_pc>>

mrVars == <<mr_quant_rows, mr_meta, mr_result>>

cbVars == <<score, bucket>>

NotCalled == "not called"

\* the value of a result variable before the call has ended
NoResult == [ok |-> FALSE, exc |-> NotCalled]

RunIdle == /\ files = <<>>
           /\ csv_file = 1
           /\ main_records = <<>>
           /\ quant_records = <<>>
           /\ qual_records = <<>>
           /\ stderr = <<>>
           /\ pc = NotCalled

PfIdle == pf_rows = <<>> /\ quant_arg = <<>> /\ qual_arg = <<>> /\ pf_result = NoResult

MdIdle == lines = <<>> /\ md_result = NoResult

QtIdle == qt_rows = <<>> /\ qt_meta = <<>> /\ qt_result = NoResult

QlIdle == /\ ql_rows = <<>>
          /\ ql_meta = <<>>
          /\ ql_next = 1
          /\ current_question = None
          /\ qual_rows = <<>>
          /\ ql_pc = NotCalled

MrIdle == mr_quant_rows = <<>> /\ mr_meta = <<>> /\ mr_result = NoResult

CbIdle == score = 0 /\ bucket = NotCalled

\* ------------------------------------------------------------------------
\* main()
\* ------------------------------------------------------------------------

Init == /\ sia \in SiaFamily
        /\ files \in FileLists
        /\ csv_file = 1
        /\ main_records = <<>>
        /\ quant_records = <<>>
        /\ qual_records = <<>>
        /\ stderr = <<>>
        /\ pc = "loop"
        /\ PfIdle /\ MdIdle /\ QtIdle /\ QlIdle /\ MrIdle /\ CbIdle

\* the three appends after process_file returned r; the loop goes on
AppendRecords(r) ==
    /\ main_records' = Append(main_records, r[1])
    /\ quant_records' = quant_records \o r[2]
    /\ qual_records' = qual_records \o r[3]
    /\ csv_file' = csv_file + 1
    /\ UNCHANGED <<stderr, pc>>

\* the quantitative rows of f up to its first measurement, when that parses
FirstMeasurement(f, m) ==
    IF f.readable /\ m.ok /\ Len(f.rows) >= 6 /\ QuantRowKind(f.rows[6]) = "append"
    THEN <<QuantMeasurement(f.rows[6], m.val)>>
    ELSE <<>>

\* a handler that keeps what was parsed before the exception
ReportErrorKeepingRows(f) ==
    /\ stderr' = Append(stderr, f.name)
    /\ quant_records' = quant_records \o FirstMeasurement(f, parse_metadata(raw_lines(f.rows)))
    /\ csv_file' = csv_file + 1
    /\ UNCHANGED <<main_records, qual_records, pc>>

\* a handler that lets the exception end the run
ReportErrorAndRaise(f) ==
    /\ stderr' = Append(stderr, f.name)
    /\ pc' = "raised"
    /\ UNCHANGED <<main_records, quant_records, qual_records, csv_file>>

\* the except branch: the file's name is printed to sys.stderr, then continue
ReportError(f) ==
    /\ stderr' = Append(stderr, f.name)
    /\ csv_file' = csv_file + 1
    /\ UNCHANGED <<main_records, quant_records, qual_records, pc>>

\* the try statement around the call whose result is r
TryFile(f, r) == IF r.ok THEN AppendRecords(r.val) ELSE ReportError(f)

\* one iteration of the for loop over the listing
ProcessFile ==
    /\ pc = "loop"
    /\ csv_file <= Len(files)
    /\ TryFile(files[csv_file], process_file(files[csv_file]))
    /\ UNCHANGED <<sia, files>>
    /\ UNCHANGED <<pfVars, mdVars, qtVars, qlVars, mrVars, cbVars>>

\* after the loop: the three DataFrames are built and written
WriteOutputs ==
    /\ pc = "loop"
    /\ csv_file > Len(files)
    /\ pc' = "done"
    /\ UNCHANGED <<sia, files, csv_file, main_records, quant_records, qual_records, stderr>>
    /\ UNCHANGED <<pfVars, mdVars, qtVars, qlVars, mrVars, cbVars>>

Next == ProcessFile \/ WriteOutputs

Spec == Init /\ [][Next]_vars

\* the for loop takes its next iteration
LoopAdvances == pc = "loop" /\ csv_file <= Len(files) /\ csv_file' = csv_file + 1

\* the interpreter runs main() on: an iteration that can be taken is taken,
\* and so is the step after the loop (the handlers of ProcessFile are total,
\* so LoopAdvances is enabled exactly when ProcessFile is)
FairSpec == Spec /\ WF_csv_file(LoopAdvances) /\ WF_vars(WriteOutputs)

\* ------------------------------------------------------------------------
\* Properties of main()
\* ------------------------------------------------------------------------

\* what a file whose call returned r adds to output number part
Contribution(r, part) ==
    IF ~r.ok THEN <<>> ELSE IF part = 1 THEN <<r.val[1]>> ELSE r.val[part]

\* output number part after the first n files of fs
RECURSIVE Gathered(_, _, _)
Gathered(fs, n, part) ==
    IF n = 0 THEN <<>>
    ELSE Gathered(fs, n - 1, part) \o Contribution(process_file(fs[n]), part)

\* a line of the four-line window carries the header, and one the count
BannerFound(ls) ==
    /\ \E i \in 1..Len(ls) : i <= 4 /\ meta_re_search(ls[i]) # None
    /\ \E i \in 1..Len(ls) : i <= 4 /\ possible_resp_re_search(ls[i]) # None

\* a row of the quantitative table that is reached and parsed holds a
\* numeric cell that does not convert
NumberFails(section) ==
    \E k \in 1..Len(section) :
        /\ k < text_resp_idx(section)
        /\ \A j \in 1..(k - 1) : Len(section[j]) > 0
        /\ Len(section[k]) >= 5
        /\ clean_cell(section[k][2]) # <<>>
        /\ QuantRowRaises(section[k])

\* the error kinds of a file: I/O, metadata not found, non-numeric cell
FileFails(f) ==
    \/ ~f.readable
    \/ ~BannerFound(raw_lines(f.rows))
    \/ NumberFails(quant_section(f.rows))

RECURSIVE FailedNames(_, _)
FailedNames(fs, n) ==
    IF n = 0 THEN <<>>
    ELSE FailedNames(fs, n - 1) \o (IF FileFails(fs[n]) THEN <<fs[n].name>> ELSE <<>>)

\* C1: every file visited so far has contributed all of its records (one
\* main record, all its quantitative and all its qualitative records) or,
\* when its processing raised, nothing at all and a line on stderr.
C1_AllOrNothing ==
    /\ stderr = FailedNames(files, csv_file - 1)
    /\ \A i \in 1..(csv_file - 1) : FileFails(files[i]) <=> ~process_file(files[i]).ok
    /\ main_records = Gathered(files, csv_file - 1, 1)
    /\ quant_records = Gathered(files, csv_file - 1, 2)
    /\ qual_records = Gathered(files, csv_file - 1, 3)
    /\ Len(main_records) + Len(stderr) = csv_file - 1

C1_Witness ==
    /\ pc = "done"
    /\ Len(files) = 2
    /\ files[1] = fBadAvg
    /\ stderr = <<"badavg.csv">>
    /\ Len(main_records) = 1
    /\ quant_records # <<>>
    /\ qual_records # <<>>

\* the records of a call that returned r are in the outputs
Present(r) ==
    r.ok => /\ r.val[1] \in Range(main_records)
            /\ \A q \in Range(r.val[2]) : q \in Range(quant_records)
            /\ \A q \in Range(r.val[3]) : q \in Range(qual_records)

\* C2: whatever files fail, the run visits every file, ends with the write
\* step, and the outputs then hold the records of every well-formed file.
C2_RunCompletes ==
    <>(/\ pc = "done"
       /\ csv_file = Len(files) + 1
       /\ Len(main_records) + Len(stderr) = Len(files)
       /\ \A i \in 1..Len(files) : Present(process_file(files[i])))

C2_Witness ==
    /\ pc = "done"
    /\ Len(files) = 2
    /\ ~process_file(files[1]).ok
    /\ process_file(files[2]).ok
    /\ Present(process_file(files[2]))
    /\ Len(quant_records) > 0

\* ------------------------------------------------------------------------
\* parse_qual_section, row by row
\* ------------------------------------------------------------------------

\* the metadata of two banners
MetaPool == {parse_metadata(raw_lines(b)).val : b \in {<<bBoth>>, <<bTitleLower, bRespUpper>>}}

QualRowPool == {rEmpty, rSentinel, hPace, hLabs, hBare, aGood, aBad, aNA, aNAUpper, aSpaces}

MaxQualRows == 3

QualInputs == SeqsUpTo(QualRowPool, MaxQualRows)

\* the regions of a file processed after another one
QualFollowUps == {<<>>, <<aGood>>, <<hLabs, aBad>>}

InitQual == sia \in SiaFamily /\ RunIdle /\ PfIdle /\ MdIdle /\ QtIdle /\ QlIdle /\ MrIdle /\ CbIdle

\* entry of parse_qual_section(rows, meta): the two locals are initialised
QualEnter(rows, meta) ==
    /\ ql_rows' = rows
    /\ ql_meta' = meta
    /\ ql_next' = 1
    /\ current_question' = QualInit.current_question
    /\ qual_rows' = QualInit.qual_rows
    /\ ql_pc' = "loop"
    /\ UNCHANGED <<sia, runVars, pfVars, mdVars, qtVars, mrVars, cbVars>>

\* the call for the first file
QualCall ==
    /\ ql_pc = NotCalled
    /\ \E rows \in QualInputs, meta \in MetaPool : QualEnter(rows, meta)

\* the call for a later file, after the call before has returned
QualCallAgain ==
    /\ ql_pc = "returned"
    /\ \E rows \in QualFollowUps, meta \in MetaPool : QualEnter(rows, meta)

QualAssign(st) == current_question' = st.current_question /\ qual_rows' = st.qual_rows

\* one iteration of the for loop
QualIterate ==
    /\ ql_pc = "loop"
    /\ ql_next <= Len(ql_rows)
    /\ QualAssign(QualStep([current_question |-> current_question, qual_rows |-> qual_rows],
                           ql_rows[ql_next], ql_meta))
    /\ ql_next' = ql_next + 1
    /\ UNCHANGED <<ql_rows, ql_meta, ql_pc>>
    /\ UNCHANGED <<sia, runVars, pfVars, mdVars, qtVars, mrVars, cbVars>>

\* return qual_rows
QualReturn ==
    /\ ql_pc = "loop"
    /\ ql_next > Len(ql_rows)
    /\ ql_pc' = "returned"
    /\ UNCHANGED <<ql_rows, ql_meta, ql_next, current_question, qual_rows>>
    /\ UNCHANGED <<sia, runVars, pfVars, mdVars, qtVars, mrVars, cbVars>>

NextQual == QualCall \/ QualCallAgain \/ QualIterate \/ QualReturn

SpecQual == InitQual /\ [][NextQual]_vars

\* ------------------------------------------------------------------------
\* Properties of parse_qual_section
\* ------------------------------------------------------------------------

\* the normalized first cell of the row is a "Question:" header
IsHeader(row) == Len(row) > 0 /\ startswith(lower(clean_cell(row[1])), sQuestionPrefix)

\* the normalized first cell of the row is n/a or na in some letter case
IsPlaceholder(row) == Len(row) > 0 /\ lower(clean_cell(row[1])) \in {sNA, sNA2}

\* the header rows among the first k - 1 rows
HeadersBefore(rows, k) == {i \in 1..(k - 1) : i <= Len(rows) /\ IsHeader(rows[i])}

\* the prefix-stripped text of a header row
HeaderText(row) == question_text(clean_cell(row[1]))

\* the loop visits row ql_next in this step
VisitsRow == ql_pc = "loop" /\ ql_pc' = "loop" /\ ql_next' = ql_next + 1

\* C3: a row visited before any header row has been visited, and a row whose
\* normalized first cell is n/a or na in any letter case, leave the list of
\* comments as it is; no comment is held while no header has been visited,
\* and no comment ever has a placeholder as its answer.
C3_NoCommentWithoutContext ==
    /\ [](/\ HeadersBefore(ql_rows, ql_next) = {} => qual_rows = <<>>
          /\ \A c \in Range(qual_rows) : lower(c["Answer Text"]) \notin {sNA, sNA2})
    /\ [][VisitsRow /\ (\/ HeadersBefore(ql_rows, ql_next) = {}
                        \/ IsPlaceholder(ql_rows[ql_next]))
          => qual_rows' = qual_rows]_vars

C3_Witness ==
    /\ ql_pc = "returned"
    /\ ql_rows = <<aGood, hPace, aNAUpper>>
    /\ qual_rows = <<>>

\* current_question is the text of the last header row visited
QuestionIsLastHeader ==
    current_question =
        IF HeadersBefore(ql_rows, ql_next) = {} THEN None
        ELSE Some(HeaderText(ql_rows[Max(HeadersBefore(ql_rows, ql_next))]))

\* the step appends one comment, for row ql_next under the last header before it
AppendsUnderLastHeader ==
    /\ HeadersBefore(ql_rows, ql_next) # {}
    /\ Len(qual_rows') = Len(qual_rows) + 1
    /\ SubSeq(qual_rows', 1, Len(qual_rows)) = qual_rows
    /\ qual_rows'[Len(qual_rows')]["Question Text"] =
           HeaderText(ql_rows[Max(HeadersBefore(ql_rows, ql_next))])
    /\ qual_rows'[Len(qual_rows')]["Answer Text"] = clean_cell(ql_rows[ql_next][1])

\* C4: every call starts with no current question and no comments; from then
\* on the current question is the prefix-stripped text of the last header row
\* visited in this call, and every comment appended carries the text of the
\* most recent header row before its own row and is never changed afterwards.
C4_QuestionOfLastHeader ==
    /\ [](ql_pc # NotCalled => QuestionIsLastHeader)
    /\ [][(ql_pc # "loop" /\ ql_pc' = "loop") =>
              (current_question' = None /\ qual_rows' = <<>>)]_vars
    /\ [][(VisitsRow /\ qual_rows' # qual_rows) => AppendsUnderLastHeader]_vars

C4_Witness ==
    /\ ql_pc = "returned"
    /\ ql_rows = <<hPace, hLabs, aBad>>
    /\ Len(qual_rows) = 1
    /\ qual_rows[1]["Question Text"] = <<"L", "a", "b", "s">>
    /\ current_question = Some(<<"L", "a", "b", "s">>)

\* rows i and i + 1 exchanged
SwapRows(rows, i) ==
    [k \in 1..Len(rows) |-> IF k = i THEN rows[i + 1] ELSE IF k = i + 1 THEN rows[i] ELSE rows[k]]

\* rows i and i + 1 are answer rows of the same header group
SameGroup(rows, i) == i < Len(rows) /\ ~IsHeader(rows[i]) /\ ~IsHeader(rows[i + 1])

\* C8: exchanging two neighbouring rows of one header group (which generates
\* every permutation of the group) leaves the set and the number of the
\* comments that the call returns unchanged.
C8_OrderWithinGroup ==
    ql_pc = "returned" =>
        \A i \in 1..Len(ql_rows) :
            SameGroup(ql_rows, i) =>
                /\ Range(parse_qual_section(SwapRows(ql_rows, i), ql_meta)) = Range(qual_rows)
                /\ Len(parse_qual_section(SwapRows(ql_rows, i), ql_meta)) = Len(qual_rows)

C8_Witness ==
    /\ ql_pc = "returned"
    /\ ql_rows = <<hPace, aGood, aBad>>
    /\ Len(qual_rows) = 2
    /\ parse_qual_section(SwapRows(ql_rows, 2), ql_meta) # qual_rows
    /\ Range(parse_qual_section(SwapRows(ql_rows, 2), ql_meta)) = Range(qual_rows)

\* ------------------------------------------------------------------------
\* parse_quant_section
\* ------------------------------------------------------------------------

QuantRowPool == {q21, q23, qUnmapped, qBadAvg, qBadSD, qBadN, qShort, qNoText, rEmpty,
                 rSentinel}

MaxQuantRows == 3

InitQuant ==
    /\ sia = Scorer(1)
    /\ qt_rows \in SeqsUpTo(QuantRowPool, MaxQuantRows)
    /\ qt_meta \in MetaPool
    /\ qt_result = NoResult
    /\ RunIdle /\ PfIdle /\ MdIdle /\ QlIdle /\ MrIdle /\ CbIdle

\* the call parse_quant_section(rows, meta)
QuantCall ==
    /\ qt_result = NoResult
    /\ qt_result' = parse_quant_section(qt_rows, qt_meta)
    /\ UNCHANGED <<qt_rows, qt_meta>>
    /\ UNCHANGED <<sia, runVars, pfVars, mdVars, qlVars, mrVars, cbVars>>

NextQuant == QuantCall

SpecQuant == InitQuant /\ [][NextQuant]_vars

\* ------------------------------------------------------------------------
\* Properties of parse_quant_section
\* ------------------------------------------------------------------------

\* the row is empty or its first cell begins with "Text Responses"
StopsScan(row) == Len(row) = 0 \/ startswith(row[1], sTextResponses)

\* the rows before the first empty or sentinel row that have at least five
\* cells and a non-empty normalized question text
Measured(rows) ==
    {i \in 1..Len(rows) :
        /\ \A j \in 1..i : ~StopsScan(rows[j])
        /\ Len(rows[i]) >= 5
        /\ clean_cell(rows[i][2]) # <<>>}

\* the k-th of these rows in input order
MeasuredRow(rows, k) ==
    CHOOSE i \in Measured(rows) : Cardinality({j \in Measured(rows) : j <= i}) = k

\* out holds, in input order, exactly one measurement for each of these rows
OneEach(rows, meta, out) ==
    /\ Len(out) = Cardinality(Measured(rows))
    /\ \A k \in 1..Len(out) : out[k] = QuantMeasurement(rows[MeasuredRow(rows, k)], meta)

\* C10 as stated: every call returns one measurement for each row before the
\* stop that has five cells and a question text.
C10_AsStated ==
    qt_result # NoResult => (qt_result.ok /\ OneEach(qt_rows, qt_meta, qt_result.val))

\* C10: when no such row holds a numeric cell that does not convert, the call
\* returns, in input order, exactly one measurement for each row that precedes
\* the first empty or sentinel row, has at least five cells and has a
\* question text, and none for any other row; when one does, the call raises
\* and returns no measurement at all.
C10_OneEachUnlessRaise ==
    qt_result # NoResult =>
        IF \E i \in Measured(qt_rows) : QuantRowRaises(qt_rows[i])
        THEN ~qt_result.ok /\ "val" \notin DOMAIN qt_result
        ELSE qt_result.ok /\ OneEach(qt_rows, qt_meta, qt_result.val)

C10_Witness ==
    /\ qt_rows = <<qShort, q23, rEmpty>>
    /\ qt_result # NoResult
    /\ qt_result.ok
    /\ Len(qt_result.val) = 1
    /\ qt_result.val[1]["Question #"] = Some(23)

\* ------------------------------------------------------------------------
\* parse_main_record
\* ------------------------------------------------------------------------

MeasurementRows == {q21, q21NoAvg, q21Other, q23, q23Other, qUnmapped}

MaxMeasurements == 3

\* the lists parse_quant_section can hand over for a file with metadata meta
MeasurementLists(meta) ==
    SeqsUpTo({QuantMeasurement(r, meta) : r \in MeasurementRows}, MaxMeasurements)

InitMain ==
    /\ sia = Scorer(1)
    /\ mr_meta \in MetaPool
    /\ mr_quant_rows \in UNION {MeasurementLists(meta) : meta \in MetaPool}
    /\ \A i \in 1..Len(mr_quant_rows) :
           mr_quant_rows[i]["Course Title"] = mr_meta["Course Title"]
    /\ mr_result = NoResult
    /\ RunIdle /\ PfIdle /\ MdIdle /\ QtIdle /\ QlIdle /\ CbIdle

\* the call parse_main_record(quant_rows, meta)
MainCall ==
    /\ mr_result = NoResult
    /\ mr_result' = Ok(parse_main_record(mr_quant_rows, mr_meta))
    /\ UNCHANGED <<mr_quant_rows, mr_meta>>
    /\ UNCHANGED <<sia, runVars, pfVars, mdVars, qtVars, qlVars, cbVars>>

NextMain == MainCall

SpecMain == InitMain /\ [][NextMain]_vars

\* ------------------------------------------------------------------------
\* Properties of parse_main_record
\* ------------------------------------------------------------------------

\* the measurements of question number n
Numbered(quant, n) == {i \in 1..Len(quant) : quant[i]["Question #"] = Some(n)}

\* avg is the mean of the first measurement numbered n, or absent with none
AvgOfFirst(quant, n, avg) ==
    IF Numbered(quant, n) = {} THEN avg = None
    ELSE \E i \in Numbered(quant, n) :
             /\ \A j \in Numbered(quant, n) : i <= j
             /\ avg = quant[i]["Avg"]

\* C9: the call returns without an error; Avg (21) is the mean of the first
\* measurement numbered 21 and Avg (23) that of the first numbered 23, also
\* when that mean is absent and a later one is present; with no measurement
\* of the number the field is absent.
C9_FirstAverages ==
    mr_result # NoResult =>
        /\ mr_result.ok
        /\ AvgOfFirst(mr_quant_rows, 21, mr_result.val["Avg (21)"])
        /\ AvgOfFirst(mr_quant_rows, 23, mr_result.val["Avg (23)"])

C9_Witness ==
    /\ mr_result # NoResult
    /\ Len(mr_quant_rows) = 3
    /\ mr_quant_rows[1] = QuantMeasurement(q21NoAvg, mr_meta)
    /\ mr_quant_rows[2] = QuantMeasurement(q21Other, mr_meta)
    /\ mr_quant_rows[3] = QuantMeasurement(qUnmapped, mr_meta)
    /\ mr_result.val["Avg (21)"] = None
    /\ mr_result.val["Avg (23)"] = None

\* ------------------------------------------------------------------------
\* parse_metadata
\* ------------------------------------------------------------------------

LinePool == {join(bTitle), join(bTitleLower), join(bResp), join(bJunk), join(bNoTerm)}

MaxLines == 5

InitMeta ==
    /\ sia = Scorer(1)
    /\ lines \in SeqsUpTo(LinePool, MaxLines)
    /\ md_result = NoResult
    /\ RunIdle /\ PfIdle /\ QtIdle /\ QlIdle /\ MrIdle /\ CbIdle

\* the call parse_metadata(lines)
MetaCall ==
    /\ md_result = NoResult
    /\ md_result' = parse_metadata(lines)
    /\ UNCHANGED lines
    /\ UNCHANGED <<sia, runVars, pfVars, qtVars, qlVars, mrVars, cbVars>>

NextMeta == MetaCall

SpecMeta == InitMeta /\ [][NextMeta]_vars

\* ------------------------------------------------------------------------
\* Properties of parse_metadata
\* ------------------------------------------------------------------------

\* the lines among the first four that carry the header
HeaderLines(ls) == {i \in 1..Len(ls) : i <= 4 /\ meta_re_search(ls[i]) # None}

\* the lines among the first four that carry the possible-respondents count
CountLines(ls) == {i \in 1..Len(ls) : i <= 4 /\ possible_resp_re_search(ls[i]) # None}

\* the metadata combined from header line h and count line c
Combined(ls, h, c) ==
    mk_meta(strip(meta_re_search(ls[h])[1][3]),
            title(meta_re_search(ls[h])[1][1]),
            int(meta_re_search(ls[h])[1][2]),
            int(possible_resp_re_search(ls[c])[1][1]))

\* C7: the call returns exactly when one of the first four lines carries the
\* header and one of them, the same or another, carries the count; the value
\* returned combines a header line and a count line of that window; in every
\* other case, a match on the fifth line or later included, the call raises
\* and returns no value.
C7_FourLineWindow ==
    md_result # NoResult =>
        /\ md_result.ok <=> (HeaderLines(lines) # {} /\ CountLines(lines) # {})
        /\ md_result.ok =>
               \E h \in HeaderLines(lines), c \in CountLines(lines) :
                   md_result.val = Combined(lines, h, c)
        /\ ~md_result.ok => "val" \notin DOMAIN md_result

C7_Witness ==
    /\ md_result # NoResult
    /\ lines = <<join(bJunk), join(bTitle), join(bJunk), join(bResp), join(bTitleLower)>>
    /\ md_result.ok
    /\ md_result.val = Combined(lines, 2, 4)
    /\ md_result.val # Combined(lines, 5, 4)

\* ------------------------------------------------------------------------
\* compound_to_bucket
\* ------------------------------------------------------------------------

\* compound scores from -1 to 1, around every hundredth
ScoreSet == UNION {{10000 * k - 1, 10000 * k, 10000 * k + 1} : k \in -100..100}

InitBucket ==
    /\ sia = Scorer(1)
    /\ score \in ScoreSet
    /\ bucket = NotCalled
    /\ RunIdle /\ PfIdle /\ MdIdle /\ QtIdle /\ QlIdle /\ MrIdle

\* the call compound_to_bucket(score)
BucketCall ==
    /\ bucket = NotCalled
    /\ bucket' = compound_to_bucket(score)
    /\ UNCHANGED score
    /\ UNCHANGED <<sia, runVars, pfVars, mdVars, qtVars, qlVars, mrVars>>

NextBucket == BucketCall

SpecBucket == InitBucket /\ [][NextBucket]_vars

\* ------------------------------------------------------------------------
\* Properties of compound_to_bucket
\* ------------------------------------------------------------------------

\* C5 as stated: -0.10 is Neutral and -0.75 is Negative.
C5_AsStated ==
    bucket # NotCalled =>
        /\ score = 750000 => bucket = "Highly Positive"
        /\ score = 749999 => bucket = "Positive"
        /\ score = 100000 => bucket = "Slightly Positive"
        /\ score = -100000 => bucket = "Neutral"
        /\ score = -750000 => bucket = "Negative"
        /\ score = -900000 => bucket = "Highly Negative"

\* C5: 0.75 is Highly Positive, 0.749999 is Positive, 0.10 is Slightly
\* Positive, -0.10 is Slightly Negative, -0.75 is Highly Negative and -0.9 is
\* Highly Negative: the negative thresholds are exclusive.
C5_Boundaries ==
    bucket # NotCalled =>
        /\ score = 750000 => bucket = "Highly Positive"
        /\ score = 749999 => bucket = "Positive"
        /\ score = 100000 => bucket = "Slightly Positive"
        /\ score = -100000 => bucket = "Slightly Negative"
        /\ score = -750000 => bucket = "Highly Negative"
        /\ score = -900000 => bucket = "Highly Negative"

C5_Witness == score = -100000 /\ bucket = "Slightly Negative"

\* ------------------------------------------------------------------------
\* process_file: the two slices
\* ------------------------------------------------------------------------

\* the five rows before the quantitative region
BannerRows == <<bTitle, bResp, bJunk, bBlank, bHeader>>

BodyRowPool == {q21, qBadAvg, rEmpty, rSentinel, rSentinelLong, rIndented, hPace, aGood}

MaxBodyRows == 3

\* files with the banner and a body, and files that are shorter or lack it
RowLists ==
    {BannerRows \o body : body \in SeqsUpTo(BodyRowPool, MaxBodyRows)} \cup
    {<<>>, <<bBoth>>, <<bBoth, rSentinel, hPace, aGood>>, <<bNoTerm, bResp, bJunk, bJunk, bHeader, q21>>}

InitFile ==
    /\ sia \in SiaFamily
    /\ pf_rows \in RowLists
    /\ quant_arg = None
    /\ qual_arg = None
    /\ pf_result = NoResult
    /\ RunIdle /\ MdIdle /\ QtIdle /\ QlIdle /\ MrIdle /\ CbIdle

\* the parser calls: parse_qual_section is reached when parse_quant_section
\* returned; q is what parse_quant_section returned or raised
FileCallParsers(quant_part, qual_part, meta, q) ==
    /\ quant_arg' = Some(quant_part)
    /\ qual_arg' = (IF q.ok THEN Some(qual_part) ELSE None)
    /\ pf_result' = FileQuant(q, qual_part, meta)

FileCallSlices(quant_part, qual_part, meta) ==
    FileCallParsers(quant_part, qual_part, meta, parse_quant_section(quant_part, meta))

\* process_file after parse_metadata returned or raised m
FileCallMeta(m, section) ==
    IF ~m.ok THEN quant_arg' = None /\ qual_arg' = None /\ pf_result' = m
    ELSE FileCallSlices(quant_slice(section), qual_slice(section), m.val)

\* the call process_file(path) once the rows are read
FileCall ==
    /\ pf_result = NoResult
    /\ FileCallMeta(parse_metadata(raw_lines(pf_rows)), quant_section(pf_rows))
    /\ UNCHANGED pf_rows
    /\ UNCHANGED <<sia, runVars, mdVars, qtVars, qlVars, mrVars, cbVars>>

NextFile == FileCall

SpecFile == InitFile /\ [][NextFile]_vars

\* ------------------------------------------------------------------------
\* Properties of process_file
\* ------------------------------------------------------------------------

\* the rows after the fixed offset of five rows
AfterOffset(rows) == [i \in 1..(IF Len(rows) > 5 THEN Len(rows) - 5 ELSE 0) |-> rows[i + 5]]

\* the rows of the region whose first cell begins with "Text Responses"
Sentinels(region) ==
    {i \in 1..Len(region) : Len(region[i]) > 0 /\ startswith(region[i][1], sTextResponses)}

\* the quantitative parser got exactly the rows before row s of the region
\* and the qualitative parser, when reached, exactly the rows from s on
SplitAt(region, s) ==
    /\ quant_arg = Some([i \in 1..(s - 1) |-> region[i]])
    /\ qual_arg # None => qual_arg = Some([i \in 1..(Len(region) - s + 1) |-> region[i + s - 1]])

\* C6: the rows after the first five are split at the first row whose first
\* cell begins with "Text Responses": the rows before it go to the
\* quantitative parser only, that row and the rows after it to the
\* qualitative parser only; with no such row the quantitative parser gets
\* them all, the qualitative parser gets none and no comment is produced.
C6_Partition ==
    (pf_result # NoResult /\ quant_arg # None) =>
        IF Sentinels(AfterOffset(pf_rows)) = {}
        THEN /\ SplitAt(AfterOffset(pf_rows), Len(AfterOffset(pf_rows)) + 1)
             /\ qual_arg # None => (qual_arg = Some(<<>>) /\ pf_result.ok /\ pf_result.val[3] = <<>>)
        ELSE SplitAt(AfterOffset(pf_rows), Min(Sentinels(AfterOffset(pf_rows))))

C6_Witness ==
    /\ pf_result # NoResult
    /\ pf_rows = BannerRows \o <<q21, rSentinelLong, hPace>>
    /\ quant_arg = Some(<<q21>>)
    /\ qual_arg = Some(<<rSentinelLong, hPace>>)
    /\ pf_result.ok
    /\ Len(pf_result.val[2]) = 1

====
